---- MODULE Spec2Model ----
(***************************************************************************)
(* Model of the resilient API client (APIClient.get / fetchWithRetry), of *)
(* the IndexedDB helpers (the five object stores), and of the handlers of  *)
(* the pages that use them: favorites, search history, preferences, bulk   *)
(* reset, image URLs, the searches of the Home page and the instances of   *)
(* the useFavorites hook.                                                  *)
(*                                                                         *)
(* Time is the value of Date.now() in milliseconds.  Every `await` of the  *)
(* code that touches shared state or a timer is its own action.            *)
(***************************************************************************)
EXTENDS Integers, Sequences, FiniteSets, TLC

VARIABLES now, cache, analytics, rateLimitInfo, call, gets, fetches,
          favorites, searchHistory, preferences, localStorage, dbOpens,
          ui, image, ops, recent

\* The state of the application outside the API client and the two stores
\* it uses: the other three stores, localStorage, and the React state.
appVars ==
  <<favorites, searchHistory, preferences, localStorage, ui, image, ops, recent>>

\* The state only the API client uses.
apiVars == <<cache, rateLimitInfo, call, gets, fetches>>

vars == <<now, cache, analytics, rateLimitInfo, call, gets, fetches,
          favorites, searchHistory, preferences, localStorage, dbOpens,
          ui, image, ops, recent>>

(* ------------------------- program constants --------------------------- *)

DEFAULT_RETRIES == 3
TIMEOUT_MS == 10000
DEFAULT_429_WAIT_MS == 1000
BACKOFF_BASE_MS == 1000
CACHE_TTL_MINUTES == 10
MS_PER_MINUTE == 60000
NEAR_LIMIT == 10
RELOAD_DELAY_MS == 1000

(* ------------------------------ bounds --------------------------------- *)

MaxGets == 2
MaxFetches == 4
MaxTime == 1300000
MaxOpens == 2
MaxOps == 3
MaxClock == 2
MaxPaths == 6

(* --------------------------- value domains ----------------------------- *)

Callers == {"c1"}

\* Two callers of get that may overlap.
ConcurrentCallers == {"c1", "c2"}

\* JSON values: t is the JSON type, v the content (object/array identity or
\* size, string length, number value, 1 for true and 0 for false).
JNull == [t |-> "null", v |-> 0]

Payloads ==
  { [t |-> "object", v |-> 1], [t |-> "array", v |-> 0],
    [t |-> "string", v |-> 0],
    [t |-> "number", v |-> 0], [t |-> "boolean", v |-> 0], JNull }

\* JavaScript truthiness of a JSON value, as tested by `if (cached)`.
Truthy(p) ==
  CASE p.t = "object" -> TRUE
    [] p.t = "array" -> TRUE
    [] p.t = "string" -> p.v > 0
    [] p.t = "number" -> p.v # 0
    [] p.t = "boolean" -> p.v = 1
    [] OTHER -> FALSE

apiKey == "demo-key"

\* (endpoint, params) pairs passed to get; params is the parameter map in
\* insertion order.
Requests ==
  { [endpoint |-> "/movie/popular", params |-> << <<"page", "1">> >>],
    [endpoint |-> "/search/movie",
     params |-> << <<"query", "dune">>, <<"page", "1">> >>] }

\* The same search with its parameter map built in either order.
ReorderedRequests ==
  { [endpoint |-> "/search/movie",
     params |-> << <<"query", "dune">>, <<"page", "1">> >>],
    [endpoint |-> "/search/movie",
     params |-> << <<"page", "1">>, <<"query", "dune">> >>] }

\* A header value is the text on the wire (decimal digits) together with
\* the number the upstream meant by it.
NoHeader == [present |-> FALSE, text |-> <<>>, num |-> 0]

Header(digits, n) == [present |-> TRUE, text |-> digits, num |-> n]

RetryAfterHeaders == { NoHeader, Header(<<2>>, 2) }

NoRateHeaders == [remaining |-> NoHeader, reset |-> NoHeader]

\* Rate-limit headers of a response: none, both (remaining 0, 9, 10), or
\* X-RateLimit-Remaining alone.
RateLimitHeaders ==
  { NoRateHeaders,
    [remaining |-> Header(<<0>>, 0), reset |-> Header(<<3>>, 3)],
    [remaining |-> Header(<<9>>, 9), reset |-> Header(<<1>>, 1)],
    [remaining |-> Header(<<1, 0>>, 10), reset |-> Header(<<2>>, 2)],
    [remaining |-> Header(<<5>>, 5), reset |-> NoHeader] }

Statuses == {200, 404, 429, 503}

\* Body of a non-2xx response: not JSON, JSON without status_message, or
\* JSON with a status_message.
ErrorBodies ==
  { [json |-> FALSE, status_message |-> ""],
    [json |-> TRUE, status_message |-> ""],
    [json |-> TRUE, status_message |-> "Invalid API key"] }

NoBody == [json |-> FALSE, status_message |-> ""]

\* The responses of the upstream: a 2xx response carries a payload, a 429
\* may carry Retry-After, every other one carries an error body.
ResponsesWith(rates) ==
  [status : {200}, retryAfter : {NoHeader}, rate : rates,
   data : Payloads, errorBody : {NoBody}]
  \cup [status : {429}, retryAfter : RetryAfterHeaders, rate : rates,
        data : {JNull}, errorBody : ErrorBodies]
  \cup [status : Statuses \ {200, 429}, retryAfter : {NoHeader},
        rate : rates, data : {JNull}, errorBody : ErrorBodies]

\* Responses without rate-limit headers.
Responses == ResponsesWith({NoRateHeaders})

\* Thrown values.  cls is the JavaScript class ("object" for a plain object
\* literal), status 0 stands for an undefined status.
NoStatus == 0

Err(cls, message, status, flag) ==
  [cls |-> cls, message |-> message, status |-> status, isNetworkError |-> flag]

NoError == Err("none", "", NoStatus, "undefined")

TimeoutError == Err("Error", "Request timeout", NoStatus, "undefined")

StorageError == Err("DOMException", "QuotaExceededError", NoStatus, "undefined")

\* Rejections of fetch() other than the abort of the timeout: the failures
\* of the network, and one that is none.
NetworkFailures ==
  { Err("TypeError", "Failed to fetch", NoStatus, "undefined"),
    Err("Error", "Network request failed", NoStatus, "undefined") }

OtherFailures == { Err("Error", "Unexpected failure", NoStatus, "undefined") }

FetchFailures == NetworkFailures \cup OtherFailures

(* --------------------------- pure functions ---------------------------- *)

RECURSIVE ParseInt(_)
\* parseInt of a string of decimal digits.
ParseInt(digits) ==
  IF digits = <<>> THEN 0
  ELSE 10 * ParseInt(SubSeq(digits, 1, Len(digits) - 1)) + digits[Len(digits)]

RECURSIVE Pow2(_)
Pow2(n) == IF n = 0 THEN 1 ELSE 2 * Pow2(n - 1)

\* new URLSearchParams({ api_key: this.apiKey, ...params })
UrlParams(params) == << <<"api_key", apiKey>> >> \o params

\* `GET:${endpoint}:${urlParams.toString()}`
CacheKey(endpoint, params) == <<"GET", endpoint, UrlParams(params)>>

\* response.ok taking every status below 500 for a success.
IsOkBelow500(status) == status >= 200 /\ status <= 499

\* response.ok
IsOk(status) == status >= 200 /\ status <= 299

\* Wait429 without the conversion of seconds to milliseconds.
Wait429Seconds(retryAfter) ==
  IF retryAfter.present /\ retryAfter.text # <<>>
  THEN ParseInt(retryAfter.text)
  ELSE DEFAULT_429_WAIT_MS

\* waitTime of the 429 branch: retryAfter ? parseInt(retryAfter) * 1000 : 1000
Wait429(retryAfter) ==
  IF retryAfter.present /\ retryAfter.text # <<>>
  THEN ParseInt(retryAfter.text) * 1000
  ELSE DEFAULT_429_WAIT_MS

\* A backoff growing by one second per retry.
BackoffLinear(retries) == (3 - retries + 1) * BACKOFF_BASE_MS

\* waitTime of the 5xx and network-error branches: Math.pow(2, 3 - retries) * 1000
Backoff(retries) == Pow2(3 - retries) * BACKOFF_BASE_MS

HeaderTruthy(h) == h.present /\ h.text # <<>>

NoRateLimitInfo == [known |-> FALSE, remaining |-> 0, resetTime |-> 0, isNearLimit |-> FALSE]

\* parseRateLimitHeaders taking one of the two headers for enough.
ParseRateLimitHeadersEither(old, rate) ==
  IF HeaderTruthy(rate.remaining) \/ HeaderTruthy(rate.reset)
  THEN [known |-> TRUE,
        remaining |-> ParseInt(rate.remaining.text),
        resetTime |-> ParseInt(rate.reset.text) * 1000,
        isNearLimit |-> ParseInt(rate.remaining.text) < NEAR_LIMIT]
  ELSE old

\* parseRateLimitHeaders: the new value of this.rateLimitInfo
ParseRateLimitHeaders(old, rate) ==
  IF HeaderTruthy(rate.remaining) /\ HeaderTruthy(rate.reset)
  THEN [known |-> TRUE,
        remaining |-> ParseInt(rate.remaining.text),
        resetTime |-> ParseInt(rate.reset.text) * 1000,
        isNearLimit |-> ParseInt(rate.remaining.text) < NEAR_LIMIT]
  ELSE old

\* isNetworkError without the 'Network request failed' test.
IsNetworkErrorNoPolyfill(e) ==
  \/ e.cls = "TypeError"
  \/ e.message = "Failed to fetch"

\* isNetworkError taking every error for a network error.
IsNetworkErrorAlways(e) == e.cls # "none"

IsNetworkError(e) ==
  \/ e.cls = "TypeError"
  \/ e.message = "Failed to fetch"
  \/ e.message = "Network request failed"

\* The 429 test without the budget.
RetryOn429Always(status, retries) == status = 429

\* `response.status === 429` with `retries > 0`
RetryOn429(status, retries) == status = 429 /\ retries > 0

\* The 5xx test without the budget.
RetryOn5xxAlways(status, retries) == status >= 500

\* The 5xx test giving up one retry early.
RetryOn5xxEarlyStop(status, retries) == status >= 500 /\ retries > 1

\* `response.status >= 500 && retries > 0`
RetryOn5xx(status, retries) == status >= 500 /\ retries > 0

\* `retries > 0 && this.isNetworkError(error)`
RetryOnNetworkError(error, retries) == retries > 0 /\ IsNetworkError(error)

\* error instanceof Error
InstanceOfError(e) == e.cls \in {"Error", "TypeError", "DOMException"}

\* The APIError of a non-2xx response without the body's status_message.
HttpErrorStatusOnly(resp) ==
  Err("object", "HTTP " \o ToString(resp.status), resp.status, "false")

\* The APIError thrown by get for a non-2xx response.
HttpError(resp) ==
  Err("object",
      IF resp.errorBody.json /\ resp.errorBody.status_message # ""
      THEN resp.errorBody.status_message
      ELSE "HTTP " \o ToString(resp.status),
      resp.status, "false")

NetworkError ==
  Err("object", "Network error. Please check your connection.", NoStatus, "true")

\* The error get finally throws from its catch block.
Surfaced(e) == IF IsNetworkError(e) THEN NetworkError ELSE e

\* The api_error event's message: error instanceof Error ? error.message : 'Unknown error'
TrackedMessage(e) == IF InstanceOfError(e) THEN e.message ELSE "Unknown error"

(* ------------------------- persistence helpers ------------------------- *)

Has(store, key) == key \in DOMAIN store

\* cacheAPIResponse with db.add for db.put: an entry already stored under
\* the key is kept.
CacheAPIResponseAdd(store, key, data, ttlMinutes, t) ==
  IF key \in DOMAIN store THEN store
  ELSE [k \in DOMAIN store \cup {key} |->
          IF k = key
          THEN [key |-> key, data |-> data, timestamp |-> t,
                ttl |-> ttlMinutes * MS_PER_MINUTE]
          ELSE store[k]]

\* cacheAPIResponse taking its ttl for seconds.
CacheAPIResponseSeconds(store, key, data, ttlMinutes, t) ==
  [k \in DOMAIN store \cup {key} |->
     IF k = key
     THEN [key |-> key, data |-> data, timestamp |-> t, ttl |-> ttlMinutes * 1000]
     ELSE store[k]]

\* db.put('api-cache', { key, data, timestamp: Date.now(), ttl: ttlMinutes * 60 * 1000 })
CacheAPIResponse(store, key, data, ttlMinutes, t) ==
  [k \in DOMAIN store \cup {key} |->
     IF k = key
     THEN [key |-> key, data |-> data, timestamp |-> t,
           ttl |-> ttlMinutes * MS_PER_MINUTE]
     ELSE store[k]]

\* db.delete('api-cache', key)
CacheDeleted(store, key) == [k \in DOMAIN store \ {key} |-> store[k]]

\* The expiry test with >= for >.
IsExpiredAtTtl(entry, t) == t - entry.timestamp >= entry.ttl

\* Date.now() - cached.timestamp > cached.ttl
IsExpired(entry, t) == t - entry.timestamp > entry.ttl

\* db.add('analytics', { action, data, timestamp: Date.now() })
TrackEvent(log, action, data, t) ==
  Append(log, [action |-> action, data |-> data, timestamp |-> t])

(* ------------- favorites, search-history, preferences stores ---------- *)

\* The movies the user can act on and the text typed into the search box.
MovieIds == {1, 2}

Typed == {" ", "dune", "dune ", "arrival"}

\* query.trim() on the typed texts.
Trim(q) ==
  CASE q = " " -> ""
    [] q = "dune " -> "dune"
    [] OTHER -> q

\* The order of IndexedDB string keys on the trimmed queries.
QueryRank(q) ==
  CASE q = "arrival" -> 1
    [] q = "dune" -> 2
    [] OTHER -> 0

\* db.add on a store with a keyPath rejects a key in use (ConstraintError);
\* here the test is left out.
AddRejectedNever(store, rec) == FALSE

\* db.add('favorites', movie) on the store with keyPath 'id' rejects a key
\* in use with a ConstraintError.
AddRejected(store, rec) == \E r \in store : r.id = rec.id

\* db.add('favorites', movie), the key being free.
DbAddFavorite(store, rec) == store \cup {rec}

\* db.delete('favorites', id)
DbRemoveFavorite(store, id) == { r \in store : r.id # id }

RECURSIVE ByKey(_)
\* db.getAll('favorites'): the records in the order of their keys.
ByKey(store) ==
  IF store = {} THEN <<>>
  ELSE LET first == CHOOSE r \in store : \A o \in store : r.id <= o.id
       IN <<first>> \o ByKey(store \ {first})

\* addToSearchHistory with db.add semantics for db.put: the record of an
\* earlier submission of the query stays.
AddToSearchHistoryKeepOld(store, query, t) ==
  store \cup {[query |-> query, timestamp |-> t]}

\* db.put('search-history', { query, timestamp: Date.now() }) on the store
\* with keyPath 'query': the record of the query is replaced.
AddToSearchHistory(store, query, t) ==
  { r \in store : r.query # query } \cup {[query |-> query, timestamp |-> t]}

\* The order of the 'by-timestamp' index: by timestamp, then by primary key.
IndexBefore(a, b) ==
  \/ a.timestamp < b.timestamp
  \/ a.timestamp = b.timestamp /\ QueryRank(a.query) <= QueryRank(b.query)

RECURSIVE ByTimestamp(_)
\* index.getAll() of the 'by-timestamp' index.
ByTimestamp(store) ==
  IF store = {} THEN <<>>
  ELSE LET first == CHOOSE r \in store : \A o \in store : IndexBefore(r, o)
       IN <<first>> \o ByTimestamp(store \ {first})

\* One step of the stable sort: rec goes behind every record of sorted that
\* the comparator (a, b) => b.timestamp - a.timestamp does not put after it.
InsertDesc(sorted, rec) ==
  LET n == Cardinality({ i \in 1..Len(sorted) :
                           sorted[i].timestamp >= rec.timestamp })
  IN SubSeq(sorted, 1, n) \o <<rec>> \o SubSeq(sorted, n + 1, Len(sorted))

RECURSIVE SortDesc(_)
\* history.sort((a, b) => b.timestamp - a.timestamp), a stable sort.
SortDesc(seq) ==
  IF seq = <<>> THEN <<>>
  ELSE InsertDesc(SortDesc(SubSeq(seq, 1, Len(seq) - 1)), seq[Len(seq)])

\* .slice(0, limit)
Slice(seq, limit) ==
  SubSeq(seq, 1, IF limit < Len(seq) THEN limit ELSE Len(seq))

\* getSearchHistory without the slice.
GetSearchHistoryUnlimited(store, limit) == SortDesc(ByTimestamp(store))

\* getSearchHistory(limit)
GetSearchHistory(store, limit) == Slice(SortDesc(ByTimestamp(store)), limit)

defaultPreferences ==
  [theme |-> "dark", pageSize |-> 20, language |-> "en-US",
   offlineMode |-> FALSE]

\* db.put('preferences', value, key)
SetPreference(store, key, value) ==
  [k \in DOMAIN store \cup {key} |-> IF k = key THEN value ELSE store[k]]

\* The changes the settings page asks for: Partial<Preferences>.
Updates ==
  { [f \in {"theme"} |-> "light"], [f \in {"theme"} |-> "dark"],
    [f \in {"pageSize"} |-> 50] }

\* { ...preferences, ...updates }
Merged(prefs, updates) ==
  [f \in DOMAIN prefs \cup DOMAIN updates |->
     IF f \in DOMAIN updates THEN updates[f] ELSE prefs[f]]

\* localStorage.setItem(key, value)
SetItem(storage, key, value) ==
  [k \in DOMAIN storage \cup {key} |-> IF k = key THEN value ELSE storage[k]]

\* localStorage.getItem(key): null (here "") when the key is not set.
GetItem(storage, key) == IF key \in DOMAIN storage THEN storage[key] ELSE ""

\* initDB: `openDB('movie-discovery-db', 1, ...)` opens one more connection.
\* dbOpens counts the connections opened so far, up to MaxOpens.
OpenDB(n) == IF n < MaxOpens THEN n + 1 ELSE n

\* k calls of initDB.
OpenDBTimes(n, k) == IF n + k < MaxOpens THEN n + k ELSE MaxOpens

(* ------------------------------ state ---------------------------------- *)

\* The handler in progress: addFavorite, removeFavorite, handleSearch,
\* updatePreferences or clearAllData, and the await it stands at.
\* The state of the Home page: useState('') for the query, useState([])
\* for the movies (a list is known by the search it answers and the payload
\* it came in), and the calls of handleSearch awaiting searchMovies, one
\* per caller of the client.
NoMovies == [n |-> 0, query |-> "", data |-> JNull]

NoSearch == [pending |-> FALSE, n |-> 0, query |-> ""]

NoHome ==
  [searchQuery |-> "", movies |-> NoMovies, isSearchMode |-> FALSE,
   isLoading |-> FALSE, error |-> "",
   search |-> [c \in ConcurrentCallers |-> NoSearch],
   \* history, used by the properties only: the searches issued so far, the
   \* ones answered with a payload, and whether the clear came last
   issued |-> 0, answered |-> {}, cleared |-> FALSE]

\* One instance of the useFavorites hook: useState([]) of its own, loaded
\* on mount, and the toggle it is carrying out.
Hooks == {"MovieCard", "MovieDetailModal"}

NoHook ==
  [pc |-> "unmounted", favorites |-> <<>>, id |-> 0, savedAt |-> 0,
   toast |-> "",
   \* history, used by the properties only: whether the store held the
   \* movie when the toggle was called and when it ended
   held |-> FALSE, holds |-> FALSE, toggled |-> FALSE]

NoTask ==
  [kind |-> "none", pc |-> "idle", id |-> 0, savedAt |-> 0, query |-> "",
   old |-> defaultPreferences, new |-> defaultPreferences, snapshot |-> {},
   reloadAt |-> 0, handed |-> FALSE, trackFailed |-> FALSE]

\* The React state of a freshly loaded page: useState(defaultPreferences),
\* useState([]) for the favorites and the suggestions, nothing loaded yet.
InitialUI ==
  [pc |-> "unmounted",
   preferences |-> defaultPreferences, prefLoad |-> "none",
   favorites |-> <<>>, favLoad |-> "none",
   searchHistory |-> <<>>, histLoad |-> "none",
   toast |-> "", searched |-> "", task |-> NoTask, updates |-> <<>>,
   home |-> NoHome, hooks |-> [h \in Hooks |-> NoHook],
   \* history, used by the properties only
   themeAtMount |-> "", storedAtLoad |-> FALSE]

\* The image URLs of the component rendered last.
NoImage == [kind |-> "none", urls |-> <<>>]


\* The outcome of the latest attempt of a call: a response, a rejection
\* classified as a network error, another rejection, or the timeout.
NoOutcome == [kind |-> "none", status |-> 0, retryAfter |-> NoHeader]

Outcome(kind, status, retryAfter) ==
  [kind |-> kind, status |-> status, retryAfter |-> retryAfter]

NoPrev == [done |-> FALSE, key |-> <<>>, ok |-> FALSE, result |-> JNull, entryTs |-> 0]

IdleCall(prev) ==
  [pc |-> "idle", endpoint |-> "", key |-> <<>>, retries |-> 0,
   startAt |-> 0, wakeAt |-> 0, cached |-> JNull, data |-> JNull,
   err |-> NoError, errorBody |-> NoBody,
   \* history of the call, used by the properties only
   attempts |-> 0, requests |-> 0, tracked |-> "none", trackFailed |-> FALSE,
   read |-> "none", readData |-> JNull, readAt |-> 0, entryTs |-> 0,
   last |-> NoOutcome, rate |-> NoRateHeaders, recvAt |-> 0,
   uniform |-> "none", prev |-> prev]

InitWith(callers) ==
  /\ now = 0
  /\ cache = <<>>
  /\ analytics = <<>>
  /\ rateLimitInfo = NoRateLimitInfo
  /\ call = [c \in callers |-> IdleCall(NoPrev)]
  /\ gets = 0
  /\ fetches = 0
  /\ favorites = {}
  /\ searchHistory = {}
  /\ preferences = <<>>
  /\ localStorage = <<>>
  /\ dbOpens = 0
  /\ ui = InitialUI
  /\ image = NoImage
  /\ ops = 0
  /\ recent = <<>>

Init == InitWith(Callers)

Later(a, b) == IF a >= b THEN a ELSE b

\* The outcome shared by every attempt of a call so far, "mixed" otherwise.
Uniform(old, outcome) ==
  IF old = "none" \/ old = outcome THEN outcome ELSE "mixed"

\* fetchWithRetry up to its `await fetch(...)`: one network attempt starts.
StartAttempt(cr, retries, t) ==
  [cr EXCEPT !.pc = "inflight", !.retries = retries, !.startAt = t,
             !.attempts = @ + 1]

(* ------------------------------ actions -------------------------------- *)

\* get(endpoint, params) up to `await dbHelpers.getCachedResponse(cacheKey)`
GetStarted(c, r) ==
  /\ call[c].pc = "idle"
  /\ gets < MaxGets
  /\ gets' = gets + 1
  /\ call' = [call EXCEPT ![c].pc = "cacheGet",
                          ![c].endpoint = r.endpoint,
                          ![c].key = CacheKey(r.endpoint, r.params)]

\* A get call made by a caller that keeps no state of its own.
Get(c, r) ==
  /\ GetStarted(c, r)
  /\ UNCHANGED <<now, cache, analytics, rateLimitInfo, fetches>>
  /\ UNCHANGED <<dbOpens, appVars>>

\* get after `await dbHelpers.getCachedResponse(cacheKey)` returned `cached`:
\* `if (cached) return cached`, otherwise fetchWithRetry(url) is called.
AfterCache(cr, cached, t) ==
  IF Truthy(cached)
  THEN [cr EXCEPT !.pc = "returned", !.cached = cached, !.data = cached]
  ELSE StartAttempt([cr EXCEPT !.cached = cached, !.requests = @ + 1],
                    DEFAULT_RETRIES, t)

\* fetches counts the calls of fetch() made so far, up to MaxFetches.
Fetched(c) ==
  /\ fetches' = fetches + (call'[c].attempts - call[c].attempts)
  /\ fetches' <= MaxFetches

\* getCachedResponse after `await db.get('api-cache', key)`: absent gives
\* null, an expired entry goes on to the delete, a live entry gives its data.
CacheGet(c) ==
  LET cr == call[c]
      key == cr.key
  IN
  /\ cr.pc = "cacheGet"
  /\ IF ~Has(cache, key)
     THEN call' = [call EXCEPT ![c] =
                     AfterCache([cr EXCEPT !.read = "absent", !.readAt = now],
                                JNull, now)]
     ELSE IF IsExpired(cache[key], now)
     THEN call' = [call EXCEPT ![c].pc = "cacheDelete", ![c].read = "expired",
                               ![c].readAt = now,
                               ![c].readData = cache[key].data]
     ELSE call' = [call EXCEPT ![c] =
                     AfterCache([cr EXCEPT !.read = "live", !.readAt = now,
                                           !.readData = cache[key].data,
                                           !.entryTs = cache[key].timestamp],
                                cache[key].data, now)]
  /\ Fetched(c)
  /\ UNCHANGED <<now, cache, analytics, rateLimitInfo, gets>>
  /\ dbOpens' = OpenDB(dbOpens)
  /\ UNCHANGED appVars

\* getCachedResponse after `await db.delete('api-cache', key)`: returns null.
CacheDelete(c) ==
  LET cr == call[c] IN
  /\ cr.pc = "cacheDelete"
  /\ cache' = CacheDeleted(cache, cr.key)
  /\ call' = [call EXCEPT ![c] = AfterCache(cr, JNull, now)]
  /\ Fetched(c)
  /\ UNCHANGED <<now, analytics, rateLimitInfo, gets>>
  /\ UNCHANGED <<dbOpens, appVars>>

\* `await new Promise(resolve => setTimeout(resolve, waitTime))` followed by
\* `return this.fetchWithRetry(url, options, retries - 1)`
Retry(cr, waitTime, t) ==
  [cr EXCEPT !.pc = "wait", !.wakeAt = t + waitTime, !.retries = @ - 1]

\* get's catch block is entered with `error`.
Catch(cr, error) == [cr EXCEPT !.pc = "trackError", !.err = error]

\* fetch() resolved with a response: the rest of fetchWithRetry's try block
\* and, when it returns the response, get up to its next persistence call
\* (reading the body included).
FetchResolve(c, resp) ==
  LET cr == [call[c] EXCEPT !.last = Outcome("response", resp.status,
                                                  resp.retryAfter),
                            !.rate = resp.rate,
                            !.recvAt = now,
                            !.uniform = Uniform(@, ToString(resp.status))]
  IN
  /\ call[c].pc = "inflight"
  /\ rateLimitInfo' = ParseRateLimitHeaders(rateLimitInfo, resp.rate)
  /\ IF RetryOn429(resp.status, cr.retries)
     THEN call' = [call EXCEPT ![c] = Retry(cr, Wait429(resp.retryAfter), now)]
     ELSE IF RetryOn5xx(resp.status, cr.retries)
     THEN call' = [call EXCEPT ![c] = Retry(cr, Backoff(cr.retries), now)]
     ELSE IF ~IsOk(resp.status)
     THEN call' = [call EXCEPT ![c] =
                     Catch([cr EXCEPT !.errorBody = resp.errorBody],
                           HttpError(resp))]
     ELSE call' = [call EXCEPT ![c] = [cr EXCEPT !.pc = "cachePut",
                                                 !.data = resp.data]]
  /\ UNCHANGED <<now, cache, analytics, gets, fetches>>
  /\ UNCHANGED <<dbOpens, appVars>>

\* fetch() rejected for a reason other than the abort: fetchWithRetry's catch.
FetchReject(c, error) ==
  LET kind == IF error \in NetworkFailures THEN "network" ELSE "other"
      cr == [call[c] EXCEPT !.last = Outcome(kind, 0, NoHeader),
                            !.recvAt = now, !.uniform = Uniform(@, kind)]
  IN
  /\ call[c].pc = "inflight"
  /\ IF RetryOnNetworkError(error, cr.retries)
     THEN call' = [call EXCEPT ![c] = Retry(cr, Backoff(cr.retries), now)]
     ELSE call' = [call EXCEPT ![c] = Catch(cr, error)]
  /\ UNCHANGED <<now, cache, analytics, rateLimitInfo, gets, fetches>>
  /\ UNCHANGED <<dbOpens, appVars>>

\* Time passes until the 10 s timer fires and aborts the attempt: fetch()
\* rejects with an AbortError and fetchWithRetry throws
\* new Error('Request timeout').
FetchTimeout(c) ==
  LET cr == [call[c] EXCEPT !.last = Outcome("timeout", 0, NoHeader),
                            !.recvAt = now',
                            !.uniform = Uniform(@, "timeout")]
  IN
  /\ call[c].pc = "inflight"
  /\ now' = Later(now, call[c].startAt + TIMEOUT_MS)
  /\ now' <= MaxTime
  /\ call' = [call EXCEPT ![c] = Catch(cr, TimeoutError)]
  /\ UNCHANGED <<cache, analytics, rateLimitInfo, gets, fetches>>
  /\ UNCHANGED <<dbOpens, appVars>>

\* Time passes until the backoff timer fires: the recursive fetchWithRetry
\* call starts the next attempt.
Wake(c) ==
  /\ call[c].pc = "wait"
  /\ now' = Later(now, call[c].wakeAt)
  /\ now' <= MaxTime
  /\ call' = [call EXCEPT ![c] =
                StartAttempt([call[c] EXCEPT !.last = NoOutcome, !.recvAt = 0],
                             call[c].retries, now')]
  /\ Fetched(c)
  /\ UNCHANGED <<cache, analytics, rateLimitInfo, gets>>
  /\ UNCHANGED <<dbOpens, appVars>>

\* `await dbHelpers.cacheAPIResponse(cacheKey, data, 10)`
CachePut(c) ==
  LET cr == call[c] IN
  /\ cr.pc = "cachePut"
  /\ cache' = CacheAPIResponse(cache, cr.key, cr.data, CACHE_TTL_MINUTES, now)
  /\ call' = [call EXCEPT ![c].pc = "trackCall", ![c].entryTs = now]
  /\ UNCHANGED <<now, analytics, rateLimitInfo, gets, fetches>>
  /\ dbOpens' = OpenDB(dbOpens)
  /\ UNCHANGED appVars

\* `await dbHelpers.trackEvent('api_call', ...)` then `return data`; a
\* rejected write is caught by get's own catch block.
TrackCall(c, stored) ==
  LET cr == call[c] IN
  /\ cr.pc = "trackCall"
  /\ IF stored
     THEN /\ analytics' = TrackEvent(analytics, "api_call",
                                     [endpoint |-> cr.endpoint,
                                      info |-> ToString(cr.last.status)], now)
          /\ call' = [call EXCEPT ![c].pc = "returned", ![c].tracked = "api_call"]
     ELSE /\ analytics' = analytics
          /\ call' = [call EXCEPT ![c] = [Catch(cr, StorageError) EXCEPT
                                            !.trackFailed = TRUE]]
  /\ UNCHANGED <<now, cache, rateLimitInfo, gets, fetches>>
  /\ dbOpens' = OpenDB(dbOpens)
  /\ UNCHANGED appVars

\* get's catch block: `await dbHelpers.trackEvent('api_error', ...)`, then
\* the network-error test and the throw; a rejected write leaves the block
\* with the storage error.
TrackError(c, stored) ==
  LET cr == call[c] IN
  /\ cr.pc = "trackError"
  /\ IF stored
     THEN /\ analytics' = TrackEvent(analytics, "api_error",
                                     [endpoint |-> cr.endpoint,
                                      info |-> TrackedMessage(cr.err)], now)
          /\ call' = [call EXCEPT ![c].pc = "threw", ![c].tracked = "api_error",
                                  ![c].err = Surfaced(cr.err)]
     ELSE /\ analytics' = analytics
          /\ call' = [call EXCEPT ![c].pc = "threw", ![c].err = StorageError,
                                  ![c].trackFailed = TRUE]
  /\ UNCHANGED <<now, cache, rateLimitInfo, gets, fetches>>
  /\ dbOpens' = OpenDB(dbOpens)
  /\ UNCHANGED appVars

\* The caller has received the result; the next call of this caller follows.
Settled(c) ==
  LET cr == call[c] IN
  /\ cr.pc \in {"returned", "threw"}
  /\ call' = [call EXCEPT ![c] =
                IdleCall([done |-> TRUE, key |-> cr.key,
                          ok |-> cr.pc = "returned", result |-> cr.data,
                          entryTs |-> cr.entryTs])]

Settle(c) ==
  /\ Settled(c)
  /\ UNCHANGED <<now, cache, analytics, rateLimitInfo, gets, fetches>>
  /\ UNCHANGED <<dbOpens, appVars>>

\* The last instant at which a cache entry is live and the first instant at
\* which it is expired.
Deadlines ==
  UNION { {cache[k].timestamp + cache[k].ttl, cache[k].timestamp + cache[k].ttl + 1}
          : k \in DOMAIN cache }

\* No call is in progress; time passes up to one of these instants.
Tick ==
  /\ \A c \in DOMAIN call : call[c].pc = "idle"
  /\ \E t \in Deadlines : t > now /\ t <= MaxTime /\ now' = t
  /\ UNCHANGED <<cache, analytics, rateLimitInfo, call, gets, fetches>>
  /\ UNCHANGED <<dbOpens, appVars>>

Step(c) ==
  \/ \E r \in Requests : Get(c, r)
  \/ CacheGet(c)
  \/ CacheDelete(c)
  \/ \E resp \in Responses : FetchResolve(c, resp)
  \/ \E error \in FetchFailures : FetchReject(c, error)
  \/ FetchTimeout(c)
  \/ Wake(c)
  \/ CachePut(c)
  \/ TrackCall(c, TRUE)
  \/ TrackError(c, TRUE)
  \/ Settle(c)

\* The usage-event write is rejected by the store.
TrackFails(c) ==
  \/ TrackCall(c, FALSE)
  \/ TrackError(c, FALSE)

Next == (\E c \in Callers : Step(c)) \/ Tick

Spec == Init /\ [][Next]_vars

\* The same program with a persistence store that may reject event writes.
FaultyNext == Next \/ (\E c \in Callers : TrackFails(c))

FaultySpec == Init /\ [][FaultyNext]_vars

\* The upstream of the two-caller runs: two different 2xx payloads and a
\* 503 without a JSON body.
ConcurrentResponses ==
  { r \in Responses :
      \/ r.status = 200 /\ r.data.t \in {"object", "array"}
      \/ r.status = 503 /\ r.errorBody = NoBody }

\* Two callers whose get calls may overlap, asking for the same search with
\* the parameter map in either order.
ConcurrentStep(c) ==
  \/ \E r \in ReorderedRequests : Get(c, r)
  \/ CacheGet(c)
  \/ CacheDelete(c)
  \/ \E resp \in ConcurrentResponses : FetchResolve(c, resp)
  \/ \E error \in OtherFailures : FetchReject(c, error)
  \/ FetchTimeout(c)
  \/ Wake(c)
  \/ CachePut(c)
  \/ TrackCall(c, TRUE)
  \/ TrackError(c, TRUE)
  \/ Settle(c)

ConcurrentNext == (\E c \in ConcurrentCallers : ConcurrentStep(c)) \/ Tick

ConcurrentSpec == InitWith(ConcurrentCallers) /\ [][ConcurrentNext]_vars

\* The upstream of the runs checked for termination: one response of each
\* kind the retry pipeline tells apart.
LiveResponses ==
  { r \in Responses :
      /\ r.data \in {JNull, [t |-> "object", v |-> 1]}
      /\ r.retryAfter = NoHeader
      /\ r.errorBody = NoBody }

\* The cache outlives the page: the client may start with an entry stored
\* by an earlier session.
WarmCaches ==
  { <<>>,
    [k \in {CacheKey("/movie/popular", << <<"page", "1">> >>)} |->
       [data |-> [t |-> "object", v |-> 1], timestamp |-> 0,
        ttl |-> CACHE_TTL_MINUTES * MS_PER_MINUTE]] }

LiveInit ==
  /\ now = 0
  /\ cache \in WarmCaches
  /\ analytics = <<>>
  /\ rateLimitInfo = NoRateLimitInfo
  /\ call = [c \in Callers |-> IdleCall(NoPrev)]
  /\ gets = 0
  /\ fetches = 0
  /\ favorites = {}
  /\ searchHistory = {}
  /\ preferences = <<>>
  /\ localStorage = <<>>
  /\ dbOpens = 0
  /\ ui = InitialUI
  /\ image = NoImage
  /\ ops = 0
  /\ recent = <<>>

\* A get call is made while the attempts it may need are within MaxFetches.
LiveGet(c, r) ==
  /\ fetches + DEFAULT_RETRIES + 1 <= MaxFetches
  /\ Get(c, r)

\* The steps a get call in progress takes by itself: the persistence
\* operations complete, an attempt ends in a response, a rejection or the
\* timeout, and the backoff timer fires.
Progress(c) ==
  \/ CacheGet(c)
  \/ CacheDelete(c)
  \/ \E resp \in LiveResponses : FetchResolve(c, resp)
  \/ \E error \in FetchFailures : FetchReject(c, error)
  \/ FetchTimeout(c)
  \/ Wake(c)
  \/ CachePut(c)
  \/ TrackCall(c, TRUE)
  \/ TrackError(c, TRUE)

LiveNext ==
  \/ \E c \in Callers : \E r \in Requests : LiveGet(c, r)
  \/ \E c \in Callers : Progress(c)
  \/ \E c \in Callers : Settle(c)
  \/ Tick

\* The client with every await of a call in progress eventually resumed.
LiveSpec ==
  /\ LiveInit
  /\ [][LiveNext]_vars
  /\ \A c \in Callers : WF_vars(Progress(c))

\* The upstream of the rate-limit runs: a 2xx, a 429 and a 503 response,
\* each with any of the rate-limit header combinations.
RateResponses ==
  { r \in ResponsesWith(RateLimitHeaders) :
      /\ r.status \in {200, 429, 503}
      /\ r.data \in {JNull, [t |-> "object", v |-> 1]}
      /\ r.retryAfter = NoHeader
      /\ r.errorBody = NoBody }

RateStep(c) ==
  \/ \E r \in Requests : Get(c, r)
  \/ CacheGet(c)
  \/ CacheDelete(c)
  \/ \E resp \in RateResponses : FetchResolve(c, resp)
  \/ \E error \in OtherFailures : FetchReject(c, error)
  \/ FetchTimeout(c)
  \/ Wake(c)
  \/ CachePut(c)
  \/ TrackCall(c, TRUE)
  \/ TrackError(c, TRUE)
  \/ Settle(c)

RateNext == (\E c \in Callers : RateStep(c)) \/ Tick

\* The client in front of an upstream that sends rate-limit headers.
RateSpec == Init /\ [][RateNext]_vars

(* ------------------------------ image URLs ----------------------------- *)

\* A path of the catalog: null, or a string that may be empty.
NullPath == [isNull |-> TRUE, text |-> ""]

Str(text) == [isNull |-> FALSE, text |-> text]

ImagePaths ==
  {NullPath, Str("")}
    \cup { Str("/p" \o ToString(i) \o ".jpg") : i \in 1..MaxPaths }

\* The size argument of getImageUrl; "undefined" when it is left out.
SizeArgs == {"w300", "w500", "w780", "original", "undefined"}

\* getImageUrl testing for null only.
GetImageUrlNullOnly(path, size) ==
  IF path.isNull THEN "/placeholder.svg"
  ELSE "https://image.tmdb.org/t/p/"
         \o (IF size = "undefined" THEN "w500" ELSE size) \o path.text

\* tmdbAPI.getImageUrl(path, size = 'w500'): `if (!path) return
\* '/placeholder.svg'`, else the base URL, the size and the path.
GetImageUrl(path, size) ==
  IF path.isNull \/ path.text = "" THEN "/placeholder.svg"
  ELSE "https://image.tmdb.org/t/p/"
         \o (IF size = "undefined" THEN "w500" ELSE size) \o path.text

Rendered(path, size) ==
  [path |-> path, size |-> size, url |-> GetImageUrl(path, size)]

\* MovieCard renders the poster of a movie.
RenderCard(poster_path) ==
  /\ image' = [kind |-> "card", urls |-> <<Rendered(poster_path, "w500")>>]
  /\ UNCHANGED <<now, analytics, favorites, searchHistory, preferences,
                 localStorage, dbOpens, ui, ops, recent, apiVars>>

\* MovieDetailModal renders the backdrop and the poster of a movie.
RenderModal(backdrop_path, poster_path) ==
  /\ image' = [kind |-> "modal",
               urls |-> <<Rendered(backdrop_path, "w780"),
                          Rendered(poster_path, "w500")>>]
  /\ UNCHANGED <<now, analytics, favorites, searchHistory, preferences,
                 localStorage, dbOpens, ui, ops, recent, apiVars>>

\* A call of getImageUrl with any size, or without one.
BuildImageUrl(path, size) ==
  /\ image' = [kind |-> "call", urls |-> <<Rendered(path, size)>>]
  /\ UNCHANGED <<now, analytics, favorites, searchHistory, preferences,
                 localStorage, dbOpens, ui, ops, recent, apiVars>>

ImageNext ==
  \/ \E poster_path \in ImagePaths : RenderCard(poster_path)
  \/ \E backdrop_path, poster_path \in ImagePaths :
       RenderModal(backdrop_path, poster_path)
  \/ \E path \in ImagePaths, size \in SizeArgs : BuildImageUrl(path, size)

ImageSpec == Init /\ [][ImageNext]_vars

(* ----------------- the pages: mount and the loaders -------------------- *)

\* The effect of PreferencesProvider on preferences.theme:
\* localStorage.setItem('theme', preferences.theme)
ThemeEffect(storage, theme) == SetItem(storage, "theme", theme)

\* The first run of the theme effect coming after the preferences are
\* loaded: nothing is stored when the page is mounted.
FirstRenderEffectLate(storage, theme) == storage

\* The effects of the first render run in the order of their declaration,
\* each to its end: the theme effect stores the theme of the initial state
\* before loadPreferences goes on from its first await.
FirstRenderEffect(storage, theme) == ThemeEffect(storage, theme)

\* The effect runs after the first render and when the theme has changed.
ThemeChanged(storage, old, new) ==
  IF new # old THEN ThemeEffect(storage, new) ELSE storage

\* The page is loaded: the effects of the first render run in order.
\* loadPreferences, loadFavorites and loadSearchHistory each run up to their
\* first await (three calls of initDB), and the theme effect stores the
\* theme of the initial state.
Mount ==
  /\ ui.pc = "unmounted"
  /\ ui' = [InitialUI EXCEPT !.pc = "mounted", !.prefLoad = "pending",
                             !.favLoad = "pending", !.histLoad = "pending",
                             !.themeAtMount = GetItem(localStorage, "theme")]
  /\ localStorage' = FirstRenderEffect(localStorage, InitialUI.preferences.theme)
  /\ dbOpens' = OpenDBTimes(dbOpens, 3)
  /\ UNCHANGED <<now, analytics, favorites, searchHistory, preferences,
                 image, ops, recent, apiVars>>

\* loadPreferences after `await dbHelpers.getPreference('user-preferences')`
LoadPreferences ==
  LET hasStored == "user-preferences" \in DOMAIN preferences
      storedTheme == GetItem(localStorage, "theme")
      loaded == IF hasStored
                THEN Merged(defaultPreferences, preferences["user-preferences"])
                ELSE IF storedTheme # ""
                THEN [ui.preferences EXCEPT !.theme = storedTheme]
                ELSE ui.preferences
  IN
  /\ ui.prefLoad = "pending"
  /\ ui' = [ui EXCEPT !.preferences = loaded, !.prefLoad = "done",
                      !.storedAtLoad = hasStored]
  /\ localStorage' = ThemeChanged(localStorage, ui.preferences.theme, loaded.theme)
  /\ UNCHANGED <<now, analytics, favorites, searchHistory, preferences,
                 dbOpens, image, ops, recent, apiVars>>

\* loadFavorites after `await dbHelpers.getFavorites()`
LoadFavorites ==
  /\ ui.favLoad = "pending"
  /\ ui' = [ui EXCEPT !.favorites = ByKey(favorites), !.favLoad = "done"]
  /\ UNCHANGED <<now, analytics, favorites, searchHistory, preferences,
                 localStorage, dbOpens, image, ops, recent, apiVars>>

\* history.map(h => h.query)
Queries(history) == [i \in 1..Len(history) |-> history[i].query]

\* loadSearchHistory after `await dbHelpers.getSearchHistory(5)`, as run
\* by the effect of SearchBar on mount.
LoadSearchHistory ==
  /\ ui.histLoad = "pending"
  /\ ui' = [ui EXCEPT !.searchHistory = Queries(GetSearchHistory(searchHistory, 5)),
                      !.histLoad = "done"]
  /\ UNCHANGED <<now, analytics, favorites, searchHistory, preferences,
                 localStorage, dbOpens, image, ops, recent, apiVars>>

\* The page is loaded and no handler is in progress.
Ready ==
  /\ ui.pc = "mounted"
  /\ ui.prefLoad = "done" /\ ui.favLoad = "done" /\ ui.histLoad = "done"
  /\ ui.task.pc \in {"idle", "done"}

\* A handler starts: one more user action, up to MaxOps.
Started(task) ==
  /\ Ready
  /\ ops < MaxOps
  /\ ops' = ops + 1
  /\ ui' = [ui EXCEPT !.task = task]

(* ------------------------------ favorites ------------------------------ *)

\* useFavorites.addFavorite(movie) up to `await dbHelpers.addFavorite(...)`
AddFavorite(id) ==
  /\ Started([NoTask EXCEPT !.kind = "addFavorite", !.pc = "dbAdd",
                            !.id = id, !.savedAt = now])
  /\ dbOpens' = OpenDB(dbOpens)
  /\ UNCHANGED <<now, analytics, favorites, searchHistory, preferences,
                 localStorage, image, recent, apiVars>>

\* addFavorite after the add: a rejected add goes to the catch block (error
\* toast); otherwise the record is stored, the list state gets it, and
\* trackEvent('favorite_added') is called.
AddFavoriteStored ==
  LET task == ui.task
      favoriteMovie == [id |-> task.id, savedAt |-> task.savedAt]
  IN
  /\ task.kind = "addFavorite" /\ task.pc = "dbAdd"
  /\ IF AddRejected(favorites, favoriteMovie)
     THEN /\ ui' = [ui EXCEPT !.task.pc = "done", !.toast = "Error"]
          /\ UNCHANGED <<favorites, dbOpens>>
     ELSE /\ favorites' = DbAddFavorite(favorites, favoriteMovie)
          /\ ui' = [ui EXCEPT !.task.pc = "track",
                              !.favorites = Append(@, favoriteMovie)]
          /\ dbOpens' = OpenDB(dbOpens)
  /\ UNCHANGED <<now, analytics, searchHistory, preferences, localStorage,
                 image, ops, recent, apiVars>>

\* addFavorite after `await dbHelpers.trackEvent('favorite_added', ...)`:
\* the success toast, or the catch block with its error toast.
AddFavoriteTracked(stored) ==
  LET task == ui.task IN
  /\ task.kind = "addFavorite" /\ task.pc = "track"
  /\ IF stored
     THEN /\ analytics' = TrackEvent(analytics, "favorite_added",
                                     [movieId |-> task.id], now)
          /\ ui' = [ui EXCEPT !.task.pc = "done", !.toast = "Added to Favorites"]
     ELSE /\ analytics' = analytics
          /\ ui' = [ui EXCEPT !.task.pc = "done", !.task.trackFailed = TRUE,
                              !.toast = "Error"]
  /\ UNCHANGED <<now, favorites, searchHistory, preferences, localStorage,
                 dbOpens, image, ops, recent, apiVars>>

\* prev.filter(fav => fav.id !== movieId)
Without(list, id) == SelectSeq(list, LAMBDA fav : fav.id # id)

\* useFavorites.removeFavorite(movieId) up to `await dbHelpers.removeFavorite(...)`
RemoveFavorite(id) ==
  /\ Started([NoTask EXCEPT !.kind = "removeFavorite", !.pc = "dbRemove",
                            !.id = id])
  /\ dbOpens' = OpenDB(dbOpens)
  /\ UNCHANGED <<now, analytics, favorites, searchHistory, preferences,
                 localStorage, image, recent, apiVars>>

\* removeFavorite after the delete: the list state drops the movie and
\* trackEvent('favorite_removed') is called.
RemoveFavoriteDeleted ==
  LET task == ui.task IN
  /\ task.kind = "removeFavorite" /\ task.pc = "dbRemove"
  /\ favorites' = DbRemoveFavorite(favorites, task.id)
  /\ ui' = [ui EXCEPT !.task.pc = "track", !.favorites = Without(@, task.id)]
  /\ dbOpens' = OpenDB(dbOpens)
  /\ UNCHANGED <<now, analytics, searchHistory, preferences, localStorage,
                 image, ops, recent, apiVars>>

\* removeFavorite after `await dbHelpers.trackEvent('favorite_removed', ...)`
RemoveFavoriteTracked(stored) ==
  LET task == ui.task IN
  /\ task.kind = "removeFavorite" /\ task.pc = "track"
  /\ IF stored
     THEN /\ analytics' = TrackEvent(analytics, "favorite_removed",
                                     [movieId |-> task.id], now)
          /\ ui' = [ui EXCEPT !.task.pc = "done",
                              !.toast = "Removed from Favorites"]
     ELSE /\ analytics' = analytics
          /\ ui' = [ui EXCEPT !.task.pc = "done", !.task.trackFailed = TRUE,
                              !.toast = "Error"]
  /\ UNCHANGED <<now, favorites, searchHistory, preferences, localStorage,
                 dbOpens, image, ops, recent, apiVars>>

(* --------------------------- search history ---------------------------- *)

\* The distinct queries submitted so far with the time of their latest
\* submission, the one submitted last first.
Resubmitted(order, query, t) ==
  <<[query |-> query, timestamp |-> t]>>
    \o SelectSeq(order, LAMBDA r : r.query # query)

\* SearchBar.handleSearch(query) up to `await dbHelpers.addToSearchHistory(...)`;
\* a blank query returns at once.
HandleSearch(query) ==
  /\ Trim(query) # ""
  /\ Started([NoTask EXCEPT !.kind = "handleSearch", !.pc = "histPut",
                            !.query = Trim(query)])
  /\ dbOpens' = OpenDB(dbOpens)
  /\ UNCHANGED <<now, analytics, favorites, searchHistory, preferences,
                 localStorage, image, recent, apiVars>>

\* handleSearch after the put of the query; loadSearchHistory is called.
SearchStored ==
  LET task == ui.task IN
  /\ task.kind = "handleSearch" /\ task.pc = "histPut"
  /\ searchHistory' = AddToSearchHistory(searchHistory, task.query, now)
  /\ recent' = Resubmitted(recent, task.query, now)
  /\ ui' = [ui EXCEPT !.task.pc = "histLoad"]
  /\ dbOpens' = OpenDB(dbOpens)
  /\ UNCHANGED <<now, analytics, favorites, preferences, localStorage,
                 image, ops, apiVars>>

\* handleSearch after `await loadSearchHistory()`; trackEvent('movie_search')
\* is called.
SearchHistoryLoaded ==
  LET task == ui.task IN
  /\ task.kind = "handleSearch" /\ task.pc = "histLoad"
  /\ ui' = [ui EXCEPT !.task.pc = "track",
                      !.searchHistory = Queries(GetSearchHistory(searchHistory, 5))]
  /\ dbOpens' = OpenDB(dbOpens)
  /\ UNCHANGED <<now, analytics, favorites, searchHistory, preferences,
                 localStorage, image, ops, recent, apiVars>>

\* handleSearch after `await dbHelpers.trackEvent('movie_search', ...)`:
\* onSearch(query.trim()), or the catch block, which only logs.
SearchTracked(stored) ==
  LET task == ui.task IN
  /\ task.kind = "handleSearch" /\ task.pc = "track"
  /\ IF stored
     THEN /\ analytics' = TrackEvent(analytics, "movie_search",
                                     [query |-> task.query], now)
          /\ ui' = [ui EXCEPT !.task.pc = "done", !.task.handed = TRUE,
                              !.searched = task.query]
     ELSE /\ analytics' = analytics
          /\ ui' = [ui EXCEPT !.task.pc = "done", !.task.trackFailed = TRUE]
  /\ UNCHANGED <<now, favorites, searchHistory, preferences, localStorage,
                 dbOpens, image, ops, recent, apiVars>>

(* ----------------------------- preferences ----------------------------- *)

\* updatePreferences(updates) up to `await dbHelpers.setPreference(...)`:
\* the state is set at once, and the theme effect follows the render.
UpdatePreferences(updates) ==
  LET newPreferences == Merged(ui.preferences, updates) IN
  /\ Ready
  /\ ops < MaxOps
  /\ ops' = ops + 1
  /\ ui' = [ui EXCEPT !.preferences = newPreferences,
                      !.task = [NoTask EXCEPT !.kind = "updatePreferences",
                                              !.pc = "prefPut",
                                              !.old = ui.preferences,
                                              !.new = newPreferences]]
  /\ localStorage' = ThemeChanged(localStorage, ui.preferences.theme,
                                  newPreferences.theme)
  /\ dbOpens' = OpenDB(dbOpens)
  /\ UNCHANGED <<now, analytics, favorites, searchHistory, preferences,
                 image, recent, apiVars>>

\* updatePreferences after the put; trackEvent('preferences_updated') is
\* called.
PreferencesStored ==
  LET task == ui.task IN
  /\ task.kind = "updatePreferences" /\ task.pc = "prefPut"
  /\ preferences' = SetPreference(preferences, "user-preferences", task.new)
  /\ ui' = [ui EXCEPT !.task.pc = "track"]
  /\ dbOpens' = OpenDB(dbOpens)
  /\ UNCHANGED <<now, analytics, favorites, searchHistory, localStorage,
                 image, ops, recent, apiVars>>

\* updatePreferences after `await dbHelpers.trackEvent('preferences_updated', ...)`;
\* the catch block sets the state back to the preferences of the render the
\* handler was created in.
PreferencesTracked(stored) ==
  LET task == ui.task IN
  /\ task.kind = "updatePreferences" /\ task.pc = "track"
  /\ IF stored
     THEN /\ analytics' = TrackEvent(analytics, "preferences_updated",
                                     [changes |-> DOMAIN task.new \ 
                                        { f \in DOMAIN task.new :
                                            task.new[f] = task.old[f] }], now)
          /\ ui' = [ui EXCEPT !.task.pc = "done"]
          /\ localStorage' = localStorage
     ELSE /\ analytics' = analytics
          /\ ui' = [ui EXCEPT !.task.pc = "done", !.task.trackFailed = TRUE,
                              !.preferences = task.old]
          /\ localStorage' = ThemeChanged(localStorage, ui.preferences.theme,
                                          task.old.theme)
  /\ UNCHANGED <<now, favorites, searchHistory, preferences, dbOpens,
                 image, ops, recent, apiVars>>

(* ------------------------------ bulk reset ----------------------------- *)

\* clearAllData up to the await of getFavorites, getSearchHistory(1000) and
\* getAnalytics(1000).
ClearAllData ==
  /\ Started([NoTask EXCEPT !.kind = "clearAllData", !.pc = "clearRead"])
  /\ dbOpens' = OpenDBTimes(dbOpens, 3)
  /\ UNCHANGED <<now, analytics, favorites, searchHistory, preferences,
                 localStorage, image, recent, apiVars>>

\* clearAllData after the three reads: removeFavorite is called for each
\* favorite that was read.
ClearRead ==
  LET task == ui.task IN
  /\ task.kind = "clearAllData" /\ task.pc = "clearRead"
  /\ ui' = [ui EXCEPT !.task.pc = "clearDelete",
                      !.task.snapshot = { r.id : r \in favorites }]
  /\ dbOpens' = OpenDBTimes(dbOpens, Cardinality(favorites))
  /\ UNCHANGED <<now, analytics, favorites, searchHistory, preferences,
                 localStorage, image, ops, recent, apiVars>>

\* clearAllData after the deletes: localStorage.clear(), the success toast,
\* and the timer of the reload.
ClearDeleted ==
  LET task == ui.task IN
  /\ task.kind = "clearAllData" /\ task.pc = "clearDelete"
  /\ favorites' = { r \in favorites : r.id \notin task.snapshot }
  /\ localStorage' = <<>>
  /\ ui' = [ui EXCEPT !.task.pc = "reloadTimer",
                      !.task.reloadAt = now + RELOAD_DELAY_MS,
                      !.toast = "Data Cleared"]
  /\ UNCHANGED <<now, analytics, searchHistory, preferences, dbOpens,
                 image, ops, recent, apiVars>>

\* Time passes until the timer fires: window.location.reload().
ClearReload ==
  /\ ui.task.kind = "clearAllData" /\ ui.task.pc = "reloadTimer"
  /\ now' = Later(now, ui.task.reloadAt)
  /\ ui' = InitialUI
  /\ UNCHANGED <<analytics, favorites, searchHistory, preferences,
                 localStorage, dbOpens, image, ops, recent, apiVars>>

\* The user reloads the page; a handler in progress is dropped.
Reload ==
  /\ ui.pc = "mounted"
  /\ ops < MaxOps
  /\ ops' = ops + 1
  /\ ui' = InitialUI
  /\ UNCHANGED <<now, analytics, favorites, searchHistory, preferences,
                 localStorage, dbOpens, image, recent, apiVars>>

\* A millisecond passes between two handlers.
Elapse ==
  /\ ui.task.pc \in {"idle", "done"}
  /\ now < MaxClock
  /\ now' = now + 1
  /\ UNCHANGED <<analytics, dbOpens, appVars, apiVars>>

AppNext ==
  \/ Mount
  \/ LoadPreferences
  \/ LoadFavorites
  \/ LoadSearchHistory
  \/ \E id \in MovieIds : AddFavorite(id)
  \/ AddFavoriteStored
  \/ AddFavoriteTracked(TRUE)
  \/ \E id \in MovieIds : RemoveFavorite(id)
  \/ RemoveFavoriteDeleted
  \/ RemoveFavoriteTracked(TRUE)
  \/ \E query \in Typed : HandleSearch(query)
  \/ SearchStored
  \/ SearchHistoryLoaded
  \/ SearchTracked(TRUE)
  \/ \E updates \in Updates : UpdatePreferences(updates)
  \/ PreferencesStored
  \/ PreferencesTracked(TRUE)
  \/ ClearAllData
  \/ ClearRead
  \/ ClearDeleted
  \/ ClearReload
  \/ Reload
  \/ Elapse

\* The pages over the persistence store, usage-event writes succeeding.
AppSpec == Init /\ [][AppNext]_vars

\* The usage-event write of a handler is rejected by the store.
AppTrackFails ==
  \/ AddFavoriteTracked(FALSE)
  \/ RemoveFavoriteTracked(FALSE)
  \/ SearchTracked(FALSE)
  \/ PreferencesTracked(FALSE)

AppFaultyNext == AppNext \/ AppTrackFails

AppFaultySpec == Init /\ [][AppFaultyNext]_vars

(* ------------------------ useFavorites instances ----------------------- *)

\* favorites.some(fav => fav.id === movieId)
IsFavorite(list, movieId) == \E i \in 1..Len(list) : list[i].id = movieId

\* The favorites collection holds the movie.
Holds(store, movieId) == \E r \in store : r.id = movieId

\* A component calling useFavorites() is mounted: the effect calls
\* loadFavorites, which runs up to `await dbHelpers.getFavorites()`.
UseFavorites(h) ==
  /\ ui.hooks[h].pc = "unmounted"
  /\ ui' = [ui EXCEPT !.hooks[h].pc = "loading"]
  /\ dbOpens' = OpenDB(dbOpens)
  /\ UNCHANGED <<now, analytics, favorites, searchHistory, preferences,
                 localStorage, image, ops, recent, apiVars>>

\* loadFavorites after the await: setFavorites(favs).
FavoritesLoaded(h) ==
  /\ ui.hooks[h].pc = "loading"
  /\ ui' = [ui EXCEPT !.hooks[h].pc = "ready",
                      !.hooks[h].favorites = ByKey(favorites)]
  /\ UNCHANGED <<now, analytics, favorites, searchHistory, preferences,
                 localStorage, dbOpens, image, ops, recent, apiVars>>

\* toggleFavorite(movie): isFavorite looks at the state of this instance,
\* and removeFavorite or addFavorite runs up to its first await.
ToggleFavorite(h, movieId) ==
  LET hook == ui.hooks[h] IN
  /\ hook.pc = "ready"
  /\ ops < MaxOps
  /\ ops' = ops + 1
  /\ ui' = [ui EXCEPT !.hooks[h] =
               [hook EXCEPT !.pc = IF IsFavorite(hook.favorites, movieId)
                                   THEN "removing" ELSE "adding",
                            !.id = movieId, !.savedAt = now, !.toast = "",
                            !.held = Holds(favorites, movieId),
                            !.toggled = TRUE]]
  /\ dbOpens' = OpenDB(dbOpens)
  /\ UNCHANGED <<now, analytics, favorites, searchHistory, preferences,
                 localStorage, image, recent, apiVars>>

\* The rest of addFavorite or removeFavorite: the write to the store, the
\* state of this instance, the usage event and the toast; a rejected add
\* goes to the catch block.
ToggleSettled(h) ==
  LET hook == ui.hooks[h]
      favoriteMovie == [id |-> hook.id, savedAt |-> hook.savedAt]
  IN
  /\ hook.pc \in {"adding", "removing"}
  /\ IF hook.pc = "adding"
     THEN IF AddRejected(favorites, favoriteMovie)
          THEN /\ ui' = [ui EXCEPT !.hooks[h].pc = "ready",
                                   !.hooks[h].toast = "Error",
                                   !.hooks[h].holds = Holds(favorites, hook.id)]
               /\ UNCHANGED <<favorites, analytics, dbOpens>>
          ELSE /\ favorites' = DbAddFavorite(favorites, favoriteMovie)
               /\ ui' = [ui EXCEPT !.hooks[h].pc = "ready",
                                   !.hooks[h].favorites = Append(@, favoriteMovie),
                                   !.hooks[h].toast = "Added to Favorites",
                                   !.hooks[h].holds = TRUE]
               /\ analytics' = TrackEvent(analytics, "favorite_added",
                                          [movieId |-> hook.id], now)
               /\ dbOpens' = OpenDB(dbOpens)
     ELSE /\ favorites' = DbRemoveFavorite(favorites, hook.id)
          /\ ui' = [ui EXCEPT !.hooks[h].pc = "ready",
                              !.hooks[h].favorites = Without(@, hook.id),
                              !.hooks[h].toast = "Removed from Favorites",
                              !.hooks[h].holds = FALSE]
          /\ analytics' = TrackEvent(analytics, "favorite_removed",
                                     [movieId |-> hook.id], now)
          /\ dbOpens' = OpenDB(dbOpens)
  /\ UNCHANGED <<now, searchHistory, preferences, localStorage, image, ops,
                 recent, apiVars>>

FavoritesNext ==
  \/ \E h \in Hooks : UseFavorites(h)
  \/ \E h \in Hooks : FavoritesLoaded(h)
  \/ \E h \in Hooks : \E id \in MovieIds : ToggleFavorite(h, id)
  \/ \E h \in Hooks : ToggleSettled(h)

\* The components that use the favorites, each with its own instance.
FavoritesSpec == Init /\ [][FavoritesNext]_vars

(* ------------------------------ Home page ------------------------------ *)

SearchQueries == {"dune", "arrival"}

\* tmdbAPI.searchMovies(query, page = 1)
SearchMovies(query) ==
  [endpoint |-> "/search/movie",
   params |-> << <<"query", query>>, <<"page", "1">> >>]

\* The upstream of the Home page runs: a 2xx with a result object and a 404.
HomeResponses ==
  { r \in Responses :
      \/ r.status = 200 /\ r.data = [t |-> "object", v |-> 1]
      \/ r.status = 404 /\ r.errorBody = NoBody }

\* Home.handleSearch(query), as called by the search bar once its own
\* writes are done, up to `await tmdbAPI.searchMovies(query, page)`; the
\* page does not hold back a call while an earlier one is awaiting.
HomeSearch(c, query) ==
  LET home == ui.home IN
  /\ ~home.search[c].pending
  /\ IF Trim(query) = ""
     THEN /\ ui' = [ui EXCEPT !.home.isSearchMode = FALSE,
                              !.home.movies = NoMovies]
          /\ UNCHANGED <<call, gets>>
     ELSE /\ GetStarted(c, SearchMovies(query))
          /\ ui' = [ui EXCEPT !.home.isLoading = TRUE, !.home.error = "",
                              !.home.isSearchMode = TRUE,
                              !.home.searchQuery = query,
                              !.home.search[c] =
                                 [pending |-> TRUE, n |-> home.issued + 1,
                                  query |-> query],
                              !.home.issued = @ + 1,
                              !.home.cleared = FALSE]
  /\ UNCHANGED <<now, cache, analytics, rateLimitInfo, fetches, dbOpens,
                 favorites, searchHistory, preferences, localStorage, image,
                 ops, recent>>

\* Home.handleSearch after `await tmdbAPI.searchMovies(...)`: the results
\* replace the movies and search_completed is tracked, or the catch block
\* sets the error; `finally` ends the loading state.
HomeSearchSettled(c) ==
  LET home == ui.home
      search == home.search[c]
      cr == call[c]
  IN
  /\ search.pending
  /\ Settled(c)
  /\ IF cr.pc = "returned"
     THEN /\ ui' = [ui EXCEPT !.home.movies = [n |-> search.n,
                                               query |-> search.query,
                                               data |-> cr.data],
                              !.home.isLoading = FALSE,
                              !.home.search[c] = NoSearch,
                              !.home.answered = @ \cup {search.n}]
          /\ analytics' = TrackEvent(analytics, "search_completed",
                                     [query |-> search.query], now)
          /\ dbOpens' = OpenDB(dbOpens)
     ELSE /\ ui' = [ui EXCEPT !.home.error = cr.err.message,
                              !.home.isLoading = FALSE,
                              !.home.search[c] = NoSearch]
          /\ UNCHANGED <<analytics, dbOpens>>
  /\ UNCHANGED <<now, cache, rateLimitInfo, gets, fetches, favorites,
                 searchHistory, preferences, localStorage, image, ops, recent>>

\* The Clear Search button, shown when `isSearchMode && searchQuery`.
ClearSearch ==
  /\ ui.home.isSearchMode /\ ui.home.searchQuery # ""
  /\ ui' = [ui EXCEPT !.home.searchQuery = "", !.home.isSearchMode = FALSE,
                      !.home.movies = NoMovies, !.home.cleared = TRUE]
  /\ UNCHANGED <<now, analytics, favorites, searchHistory, preferences,
                 localStorage, dbOpens, image, ops, recent, apiVars>>

HomeStep(c) ==
  \/ \E query \in SearchQueries : HomeSearch(c, query)
  \/ CacheGet(c)
  \/ \E resp \in HomeResponses : FetchResolve(c, resp)
  \/ FetchTimeout(c)
  \/ CachePut(c)
  \/ TrackCall(c, TRUE)
  \/ TrackError(c, TRUE)
  \/ HomeSearchSettled(c)

HomeNext == (\E c \in ConcurrentCallers : HomeStep(c)) \/ ClearSearch

\* The Home page over the client.
HomeSpec == InitWith(ConcurrentCallers) /\ [][HomeNext]_vars

(* --------------------- overlapping preference updates ------------------ *)

\* The calls of updatePreferences made since the page was loaded are kept
\* in ui.updates, in the order of the calls: the changes asked for, the
\* `preferences` of the render the handler was created in (old), the merged
\* value (new), and the await the call stands at.
Pending(u) == u.pc \in {"put", "track"}

\* A handler of the settings page calls updatePreferences(updates); the
\* page is rendered again before the next event, so each call works on the
\* state left by the calls before it.  The call runs up to
\* `await dbHelpers.setPreference(...)`.
UpdatePreferencesCall(updates) ==
  LET newPreferences == Merged(ui.preferences, updates) IN
  /\ Ready
  /\ ops < MaxOps
  /\ ops' = ops + 1
  /\ ui' = [ui EXCEPT !.preferences = newPreferences,
                      !.updates = Append(@, [pc |-> "put", changes |-> updates,
                                             old |-> ui.preferences,
                                             new |-> newPreferences])]
  /\ localStorage' = ThemeChanged(localStorage, ui.preferences.theme,
                                  newPreferences.theme)
  /\ dbOpens' = OpenDB(dbOpens)
  /\ UNCHANGED <<now, analytics, favorites, searchHistory, preferences,
                 image, recent, apiVars>>

\* The catch block of updatePreferences: setPreferences(preferences), with
\* the `preferences` of the render the handler was created in.
Reverted(i, pc) ==
  /\ ui' = [ui EXCEPT !.updates[i].pc = pc, !.preferences = ui.updates[i].old]
  /\ localStorage' = ThemeChanged(localStorage, ui.preferences.theme,
                                  ui.updates[i].old.theme)

\* `await dbHelpers.setPreference('user-preferences', newPreferences)` of
\* the i-th call settles; the puts are applied in the order of the calls.
\* A fulfilled put goes on to trackEvent, a rejected one to the catch block.
SetPreferenceSettled(i, stored) ==
  /\ i \in DOMAIN ui.updates
  /\ ui.updates[i].pc = "put"
  /\ \A j \in 1..(i - 1) : ui.updates[j].pc # "put"
  /\ IF stored
     THEN /\ preferences' = SetPreference(preferences, "user-preferences",
                                          ui.updates[i].new)
          /\ ui' = [ui EXCEPT !.updates[i].pc = "track"]
          /\ localStorage' = localStorage
          /\ dbOpens' = OpenDB(dbOpens)
     ELSE /\ preferences' = preferences
          /\ Reverted(i, "putFailed")
          /\ dbOpens' = dbOpens
  /\ UNCHANGED <<now, analytics, favorites, searchHistory, image, ops,
                 recent, apiVars>>

\* `await dbHelpers.trackEvent('preferences_updated', ...)` of the i-th call
\* settles: the call ends, through the catch block when the write is rejected.
PreferencesUpdatedTracked(i, stored) ==
  /\ i \in DOMAIN ui.updates
  /\ ui.updates[i].pc = "track"
  /\ IF stored
     THEN /\ analytics' = TrackEvent(analytics, "preferences_updated",
                                     [changes |-> DOMAIN ui.updates[i].changes],
                                     now)
          /\ ui' = [ui EXCEPT !.updates[i].pc = "done"]
          /\ localStorage' = localStorage
     ELSE /\ analytics' = analytics
          /\ Reverted(i, "trackFailed")
  /\ UNCHANGED <<now, favorites, searchHistory, preferences, dbOpens,
                 image, ops, recent, apiVars>>

PreferencesNext ==
  \/ Mount
  \/ LoadPreferences
  \/ LoadFavorites
  \/ LoadSearchHistory
  \/ \E updates \in Updates : UpdatePreferencesCall(updates)
  \/ \E i \in 1..MaxOps : SetPreferenceSettled(i, TRUE)
  \/ \E i \in 1..MaxOps : PreferencesUpdatedTracked(i, TRUE)
  \/ Reload

\* The settings page with every write succeeding.
PreferencesSpec == Init /\ [][PreferencesNext]_vars

\* A write of updatePreferences is rejected by the store.
PreferencesWriteFails ==
  \/ \E i \in 1..MaxOps : SetPreferenceSettled(i, FALSE)
  \/ \E i \in 1..MaxOps : PreferencesUpdatedTracked(i, FALSE)

PreferencesFaultyNext == PreferencesNext \/ PreferencesWriteFails

\* The settings page over a store that may reject writes.
PreferencesFaultySpec == Init /\ [][PreferencesFaultyNext]_vars

TypeOK ==
  /\ now \in 0..MaxTime
  /\ fetches \in 0..MaxFetches
  /\ gets \in 0..MaxGets
  /\ \A c \in Callers : call[c].retries \in 0..DEFAULT_RETRIES

(* ------------------------------ properties ----------------------------- *)

\* get has left the retry pipeline: fetchWithRetry returned or threw.
PipelineEnded(cr) ==
  cr.pc \in {"cachePut", "trackCall", "trackError", "returned", "threw"}

\* get has completed.
Completed(cr) == cr.pc \in {"returned", "threw"}

\* C1: a get call issued right after a successful get call with the same
\* endpoint and parameters, and reading the cache within 10 minutes of the
\* time the entry was stored, returns the payload of the first call and
\* makes no network request.
C1_BackToBackHit ==
  \A c \in Callers :
    LET cr == call[c] IN
    ( /\ cr.prev.done /\ cr.prev.ok /\ cr.prev.key = cr.key
      /\ cr.read # "none"
      /\ cr.readAt - cr.prev.entryTs <= 10 * 60 * 1000 )
    => /\ cr.attempts = 0
       /\ cr.pc = "returned"
       /\ cr.data = cr.prev.result

\* C2: whenever get finds an unexpired entry under its key, it returns the
\* payload of that entry without a network call, whatever JSON value the
\* payload is.
C2_LiveEntryServed ==
  \A c \in Callers :
    LET cr == call[c] IN
    cr.read = "live"
    => /\ cr.attempts = 0
       /\ cr.pc = "returned"
       /\ cr.data = cr.readData

\* C3: getCachedResponse on an entry older than its ttl returns null and
\* removes the entry (and nothing else); on an entry of age at most its ttl
\* it returns the stored payload and leaves the cache as it is.
C3_ExpiryOnRead ==
  [][\A c \in Callers :
       LET cr == call[c]
           nx == call'[c]
           k == cr.key
       IN
       /\ ( /\ cr.pc = "cacheGet" /\ nx.pc # "cacheGet" /\ Has(cache, k)
            /\ now - cache[k].timestamp <= cache[k].ttl )
          => /\ nx.pc # "cacheDelete"
             /\ nx.cached = cache[k].data
             /\ cache' = cache
       /\ ( /\ cr.pc = "cacheGet" /\ nx.pc # "cacheGet" /\ Has(cache, k)
            /\ now - cache[k].timestamp > cache[k].ttl )
          => nx.pc = "cacheDelete"
       /\ (cr.pc = "cacheDelete" /\ nx.pc # "cacheDelete")
          => /\ nx.cached = JNull
             /\ ~Has(cache', k)
             /\ DOMAIN cache' = DOMAIN cache \ {k}
             /\ \A j \in DOMAIN cache' : cache'[j] = cache[j]
    ]_vars

\* An expired entry was read and deleted, and the request has started.
C3_Witness ==
  \E c \in Callers :
    /\ call[c].read = "expired"
    /\ call[c].pc = "inflight"
    /\ ~Has(cache, call[c].key)

\* C4: a get call that finds an expired entry under its key goes to the
\* network exactly once, and the payload of a 2xx response is stored under
\* the key with the time of the write and a ttl of 10 minutes.
C4_ExpiredRefetch ==
  [][\A c \in Callers :
       LET cr == call[c]
           nx == call'[c]
       IN
       /\ (nx.read = "expired" /\ nx.pc # "cacheDelete") => nx.requests = 1
       /\ (cr.read = "expired" /\ cr.pc = "cacheDelete" /\ nx.pc # "cacheDelete")
          => nx.pc = "inflight" /\ nx.attempts = 1
       /\ (cr.read = "expired" /\ cr.pc = "cachePut" /\ nx.pc # "cachePut")
          => /\ Has(cache', cr.key)
             /\ cache'[cr.key] = [key |-> cr.key, data |-> cr.data,
                                  timestamp |-> now, ttl |-> 10 * 60 * 1000]
             /\ cr.last.kind = "response" /\ IsOk(cr.last.status)
       /\ (nx.read = "expired" /\ nx.pc = "returned")
          => /\ Has(cache', nx.key)
             /\ cache'[nx.key].data = nx.data
             /\ cache'[nx.key].timestamp >= nx.readAt
    ]_vars

\* A call that read an expired entry has returned the refetched payload.
C4_Witness ==
  \E c \in Callers :
    /\ call[c].read = "expired"
    /\ call[c].pc = "returned"
    /\ call[c].data # call[c].readData

\* C5: a get call whose every attempt is answered with HTTP 503 makes
\* exactly 4 attempts and then fails with an error of status 503 whose
\* network-error flag is false.
C5_Always503 ==
  \A c \in Callers :
    LET cr == call[c] IN
    (cr.uniform = "503" /\ PipelineEnded(cr))
    => /\ cr.attempts = 4
       /\ cr.pc \in {"trackError", "threw"}
       /\ cr.err.status = 503
       /\ cr.err.isNetworkError = "false"
       /\ cr.err.cls = "object"

\* Four 503 answers in a row and the call has failed.
C5_Witness ==
  \E c \in Callers :
    /\ call[c].uniform = "503"
    /\ call[c].pc = "threw"
    /\ call[c].read = "absent"

\* The wait a 429 response asks for, in milliseconds.
RequiredWait(retryAfter) ==
  IF retryAfter.present THEN retryAfter.num * 1000 ELSE 1000

\* C6: after a 429 response received with retry budget left, the call
\* waits, one unit of budget is consumed, and the next attempt starts no
\* earlier than Retry-After seconds (1000 ms without the header) after the
\* 429 was received.
C6_RetryAfterHonoured ==
  [][\A c \in Callers :
       LET cr == call[c]
           nx == call'[c]
       IN
       /\ ( /\ cr.pc = "inflight" /\ nx.pc # "inflight"
            /\ nx.last.kind = "response" /\ nx.last.status = 429
            /\ cr.retries > 0 )
          => /\ nx.pc = "wait"
             /\ nx.retries = cr.retries - 1
             /\ nx.attempts = cr.attempts
       /\ ( /\ cr.pc = "wait" /\ cr.last.status = 429
            /\ nx.attempts > cr.attempts )
          => /\ nx.startAt = now'
             /\ nx.startAt >= cr.recvAt + RequiredWait(cr.last.retryAfter)
             /\ nx.attempts = cr.attempts + 1
    ]_vars

\* The attempt after a 429 with Retry-After: 2 is under way.
C6_Witness ==
  \E c \in Callers :
    /\ call[c].pc = "inflight"
    /\ call[c].attempts = 2
    /\ call[c].retries = 2
    /\ call[c].uniform = "429"
    /\ call[c].startAt = call[c].readAt + 2000

\* C7: a get call whose every attempt fails with a network error makes
\* exactly 4 attempts and then fails with the generic connectivity error:
\* network-error flag true, no status.
C7_AlwaysNetworkError ==
  \A c \in Callers :
    LET cr == call[c] IN
    (cr.uniform = "network" /\ PipelineEnded(cr))
    => /\ cr.attempts = 4
       /\ cr.pc \in {"trackError", "threw"}
       /\ cr.pc = "threw"
          => cr.err = [cls |-> "object",
                       message |-> "Network error. Please check your connection.",
                       status |-> NoStatus, isNetworkError |-> "true"]

\* Four network errors in a row and the call has failed.
C7_Witness ==
  \E c \in Callers :
    /\ call[c].uniform = "network"
    /\ call[c].pc = "threw"
    /\ call[c].attempts = 4

\* C8: an attempt that times out, or fails with an error that is no network
\* error, ends the request whatever budget is left: no retry is scheduled,
\* and get fails with that error, not flagged as a network error.
C8_NoRetryOnTimeoutOrOther ==
  \A c \in Callers :
    LET cr == call[c] IN
    /\ cr.last.kind \in {"timeout", "other"}
       => /\ cr.pc \in {"trackError", "threw"}
          /\ cr.err.cls = "Error"
          /\ cr.err.status = NoStatus
          /\ cr.err.isNetworkError # "true"
    /\ cr.last.kind = "timeout" => cr.err.message = "Request timeout"
    /\ cr.last.kind = "other" => cr.err \in OtherFailures

\* The second attempt timed out with two retries left, and get has failed.
C8_Witness ==
  \E c \in Callers :
    /\ call[c].last.kind = "timeout"
    /\ call[c].pc = "threw"
    /\ call[c].attempts = 2
    /\ call[c].retries = 2

\* C9: every get call that completes has recorded a usage event in the step
\* that completes it: api_call when it returns, api_error when it fails.
C9_EveryCallTracked ==
  [][\A c \in Callers :
       LET cr == call[c]
           nx == call'[c]
       IN
       (~Completed(cr) /\ Completed(nx))
       => /\ Len(analytics') = Len(analytics) + 1
          /\ analytics'[Len(analytics')].action =
               (IF nx.pc = "returned" THEN "api_call" ELSE "api_error")
    ]_vars

\* C10: a rejected usage-event write does not change the result of get: a
\* call whose request ended in a 2xx response does not fail, and a call that
\* fails does not fail with the storage error.
C10_TrackingNeverBreaksGet ==
  \A c \in Callers :
    LET cr == call[c] IN
    cr.trackFailed
    => /\ (cr.last.kind = "response" /\ IsOk(cr.last.status))
          => cr.pc \notin {"trackError", "threw"}
       /\ cr.pc = "threw" => cr.err # StorageError

ParamSet(key) == { key[3][i] : i \in 1..Len(key[3]) }

\* C11: two get calls with the same endpoint and parameter maps that hold
\* the same name/value pairs in a different order have the same cache key,
\* so that the second call, reading the cache within the freshness window
\* of the entry the first one stored, is served from that entry.
C11_ReorderedHit ==
  \A c \in DOMAIN call :
    LET cr == call[c] IN
    ( /\ cr.prev.done /\ cr.prev.ok /\ Truthy(cr.prev.result)
      /\ cr.key # <<>>
      /\ cr.key[2] = cr.prev.key[2]
      /\ ParamSet(cr.key) = ParamSet(cr.prev.key)
      /\ cr.read # "none"
      /\ cr.readAt - cr.prev.entryTs <= 10 * 60 * 1000 )
    => /\ cr.key = cr.prev.key
       /\ cr.read = "live"
       /\ cr.attempts = 0
       /\ cr.pc = "returned"

\* C19: get calls for the same uncached key that overlap are not merged.
\* Each of two calls that both missed the key makes its own network
\* request; each write replaces the whole entry under the key by the
\* writer's payload, and nothing but a write or the removal of an expired
\* entry changes the cache; so once both have returned, the one entry under
\* the key holds the payload of the later write.
C19_OverlappingGets ==
  [][\A c \in ConcurrentCallers :
       LET cr == call[c]
           nx == call'[c]
           k == cr.key
       IN
       /\ (cr.pc = "cachePut" /\ nx.pc # "cachePut")
          => /\ DOMAIN cache' = DOMAIN cache \cup {k}
             /\ cache'[k] = [key |-> k, data |-> cr.data, timestamp |-> now,
                             ttl |-> 10 * 60 * 1000]
             /\ \A j \in DOMAIN cache \ {k} : cache'[j] = cache[j]
       /\ cache' # cache
          => \E d \in ConcurrentCallers :
               /\ call[d].pc \in {"cachePut", "cacheDelete"}
               /\ call'[d].pc # call[d].pc
       /\ (nx.read = "absent" /\ nx.pc = "returned")
          => /\ nx.requests = 1
             /\ nx.attempts >= 1
             /\ Has(cache', nx.key)
       /\ \A d \in ConcurrentCallers \ {c} :
            LET dx == call'[d] IN
            ( /\ nx.read = "absent" /\ dx.read = "absent" /\ nx.key = dx.key
              /\ nx.pc = "returned" /\ dx.pc = "returned" )
            => /\ nx.requests = 1 /\ dx.requests = 1
               /\ cache'[nx.key].data \in {nx.data, dx.data}
               /\ nx.entryTs < dx.entryTs
                  => /\ cache'[nx.key].data = dx.data
                     /\ cache'[nx.key].timestamp = dx.entryTs
    ]_vars

\* Both calls missed the same key, both were answered with different
\* payloads, and the entry holds the payload written later.
C19_Witness ==
  /\ call["c1"].read = "absent" /\ call["c2"].read = "absent"
  /\ call["c1"].key = call["c2"].key
  /\ call["c1"].pc = "returned" /\ call["c2"].pc = "returned"
  /\ call["c1"].data # call["c2"].data
  /\ call["c1"].entryTs < call["c2"].entryTs
  /\ cache[call["c1"].key].data = call["c2"].data

\* C13: the favorites store never holds two records with the same movie
\* id, and an add that has run for an id leaves exactly one record with
\* that id, also when the id was stored before.
C13_FavoritesUnique ==
  [][/\ \A id \in MovieIds :
          Cardinality({ r \in favorites' : r.id = id }) <= 1
     /\ ( /\ ui.task.kind = "addFavorite" /\ ui.task.pc = "dbAdd"
          /\ ui'.task.kind = "addFavorite" /\ ui'.task.pc # "dbAdd" )
        => Cardinality({ r \in favorites' : r.id = ui.task.id }) = 1
    ]_vars

\* An add for a movie stored earlier was rejected and the earlier record is
\* the one in the store.
C13_Witness ==
  /\ ui.task.kind = "addFavorite" /\ ui.task.pc = "done"
  /\ ui.toast = "Error"
  /\ \E r \in favorites : r.id = ui.task.id /\ r.savedAt < ui.task.savedAt

\* C14: getSearchHistory(n) lists every distinct query once, the query
\* submitted last first, and no more than n of them: after "dune",
\* "arrival", "dune" the list for n = 2 is "dune", "arrival".
C14_HistoryBySubmission ==
  \A n \in 0..Len(recent) + 1 :
    Queries(GetSearchHistory(searchHistory, n)) = Queries(Slice(recent, n))

\* C14, amended: getSearchHistory(n) lists every distinct query once with
\* the timestamp of its latest submission, by descending timestamp (queries
\* of the same millisecond by ascending key), and no more than n of them,
\* none left out being newer than one listed; when no two queries were last
\* submitted in the same millisecond this is the order of the latest
\* submissions, the last one first.
C14_HistoryByTimestamp ==
  \A n \in 0..Len(recent) + 1 :
    LET h == GetSearchHistory(searchHistory, n)
        listed == { h[i] : i \in 1..Len(h) }
        all == { recent[i] : i \in 1..Len(recent) }
    IN
    /\ Len(h) = (IF n < Len(recent) THEN n ELSE Len(recent))
    /\ listed \subseteq all
    /\ \A i, j \in 1..Len(h) :
         i < j => /\ h[i].query # h[j].query
                  /\ \/ h[i].timestamp > h[j].timestamp
                     \/ /\ h[i].timestamp = h[j].timestamp
                        /\ QueryRank(h[i].query) < QueryRank(h[j].query)
    /\ \A r \in all \ listed : \A o \in listed : r.timestamp <= o.timestamp
    /\ (\A i, j \in 1..Len(recent) :
          i < j => recent[i].timestamp > recent[j].timestamp)
       => h = Slice(recent, n)

\* Three searches were made, "dune" last and a millisecond or more after
\* "arrival"; the list for n = 2 is "dune", "arrival", the one for n = 1 is
\* "dune".
C14_Witness ==
  /\ ops = 3
  /\ ui.task.kind = "handleSearch" /\ ui.task.pc = "done"
  /\ Queries(recent) = <<"dune", "arrival">>
  /\ recent[1].timestamp > recent[2].timestamp
  /\ Queries(GetSearchHistory(searchHistory, 2)) = <<"dune", "arrival">>
  /\ Queries(GetSearchHistory(searchHistory, 1)) = <<"dune">>

C16_ClearLeavesNothing ==
  (ui.task.kind = "clearAllData" /\ ui.task.pc = "reloadTimer")
  => /\ favorites = {}
     /\ searchHistory = {}
     /\ cache = <<>>
     /\ preferences = <<>>
     /\ analytics = <<>>

\* C17: initDB opens the store once: calls after the first return the
\* handle of the first call and open no further connection.
C17_OpenedOnce == dbOpens <= 1

\* C18: getImageUrl(path, size) is "/placeholder.svg" when path is null or
\* empty, whatever the size, and the base URL followed by the size and the
\* path otherwise.
C18_ImageUrl ==
  \A i \in 1..Len(image.urls) :
    LET e == image.urls[i]
        size == IF e.size = "undefined" THEN "w500" ELSE e.size
    IN
    /\ (e.path = NullPath \/ e.path = Str("")) => e.url = "/placeholder.svg"
    /\ (e.path # NullPath /\ e.path # Str(""))
       => e.url = "https://image.tmdb.org/t/p/" \o size \o e.path.text

\* The modal was rendered for a movie with an empty backdrop path and a
\* poster.
C18_Witness ==
  /\ image.kind = "modal"
  /\ image.urls[1].path = Str("")
  /\ image.urls[1].url = "/placeholder.svg"
  /\ image.urls[2].url = "https://image.tmdb.org/t/p/w500/p1.jpg"

\* C20: a rejected usage-event write does not change the outcome of the
\* user's action: the search whose event was rejected has been handed to
\* onSearch, and the add whose event was rejected is reported as a success.
C20_TrackingNeverChangesOutcome ==
  (ui.task.pc = "done" /\ ui.task.trackFailed)
  => /\ ui.task.kind = "handleSearch" => ui.task.handed
     /\ ui.task.kind = "addFavorite" => ui.toast = "Added to Favorites"

\* A response reaches fetchWithRetry of call c in this step.
Received(c) ==
  /\ call[c].pc = "inflight"
  /\ call'[c].pc # "inflight"
  /\ call'[c].last.kind = "response"

\* Both rate-limit headers are on the response.
Carried(rate) == rate.remaining.present /\ rate.reset.present

\* The rate-limit information the upstream meant by its headers.
Meant(rate) ==
  [known |-> TRUE, remaining |-> rate.remaining.num,
   resetTime |-> rate.reset.num * 1000,
   isNearLimit |-> rate.remaining.num < 10]

\* C21: getRateLimitInfo is null until the first response carrying both
\* rate-limit headers is received; each received response carrying them,
\* retried or not, replaces it by that response's remaining and reset values
\* with isNearLimit true exactly when remaining < 10; nothing else changes it.
C21_RateLimitInfo ==
  /\ rateLimitInfo = NoRateLimitInfo
  /\ [][ IF \E c \in DOMAIN call : Received(c) /\ Carried(call'[c].rate)
         THEN \E c \in DOMAIN call :
                /\ Received(c)
                /\ rateLimitInfo' = Meant(call'[c].rate)
         ELSE rateLimitInfo' = rateLimitInfo ]_vars

\* A response with the headers was retried and the following response came
\* without them: the information is still that of the retried response.
C21_Witness ==
  /\ call["c1"].attempts >= 2
  /\ call["c1"].last.kind = "response"
  /\ ~Carried(call["c1"].rate)
  /\ rateLimitInfo.known
  /\ rateLimitInfo.remaining = 9
  /\ rateLimitInfo.isNearLimit

\* The calls of updatePreferences before the i-th that named field f.
Naming(i, f) == { j \in 1..(i - 1) : f \in DOMAIN ui.updates[j].changes }

\* The latest of them.
LatestNaming(i, f) == CHOOSE j \in Naming(i, f) : \A k \in Naming(i, f) : k <= j

\* The preference record of the store, the defaults when there is none.
StoredPreferences ==
  IF Has(preferences, "user-preferences")
  THEN Merged(defaultPreferences, preferences["user-preferences"])
  ELSE defaultPreferences

\* C22: the record stored by a call of updatePreferences is the preferences
\* in effect at the call merged with its changes, and a field the call does
\* not name keeps the value given by the latest earlier call naming it whose
\* writes succeeded (no such call on this page: the value it had in the
\* store), also when the calls overlap.
C22_UnnamedFieldsKept ==
  [][ \A i \in DOMAIN ui.updates :
        (ui.updates[i].pc = "put" /\ i \in DOMAIN ui'.updates
           /\ ui'.updates[i].pc = "track")
        => LET u == ui.updates[i]
               record == preferences'["user-preferences"]
           IN /\ record = Merged(u.old, u.changes)
              /\ \A f \in DOMAIN defaultPreferences \ DOMAIN u.changes :
                   IF Naming(i, f) = {}
                   THEN record[f] = StoredPreferences[f]
                   ELSE LET j == LatestNaming(i, f) IN
                        ui.updates[j].pc \in {"track", "done"}
                          => record[f] = ui.updates[j].changes[f] ]_vars

\* C30: once every call of updatePreferences made on the page has
\* completed, by success or through its catch block, the preferences held
\* in memory are the stored preference record merged over the defaults.
C30_MemoryMatchesStore ==
  (/\ ui.pc = "mounted"
   /\ ui.updates # <<>>
   /\ \A i \in DOMAIN ui.updates : ~Pending(ui.updates[i]))
  => ui.preferences = StoredPreferences

\* C23: one get call makes at most 4 network attempts: every attempt after
\* the first has taken one unit of the budget of 3, whatever caused the
\* retry, and the budget never goes below 0.
C23_AtMostFourAttempts ==
  \A c \in DOMAIN call :
    LET cr == call[c] IN
    /\ cr.attempts <= DEFAULT_RETRIES + 1
    /\ cr.pc = "inflight"
         => cr.retries >= 0 /\ cr.attempts + cr.retries = DEFAULT_RETRIES + 1
    /\ cr.pc = "wait"
         => cr.retries >= 0 /\ cr.attempts + cr.retries = DEFAULT_RETRIES

\* Retries of different causes have used up the budget, and the network
\* error of the 4th attempt is not retried.
C23_Witness ==
  /\ call["c1"].pc = "trackError"
  /\ call["c1"].attempts = DEFAULT_RETRIES + 1
  /\ call["c1"].retries = 0
  /\ call["c1"].uniform = "mixed"
  /\ call["c1"].last.kind = "network"

\* The latest attempt of the call ended in a 5xx response or a network error.
BackoffCause(cr) ==
  \/ cr.last.kind = "response" /\ cr.last.status >= 500
  \/ cr.last.kind = "network"

\* C24: the wait before a retry caused by a 5xx response or a network error
\* is 2^k * 1000 ms, k being the number of retries the call has already
\* made for any cause: 1 s, 2 s and 4 s before the 1st, 2nd and 3rd retry;
\* a 5xx response to the 4th attempt is handed on without a wait.
C24_ExponentialBackoff ==
  \A c \in DOMAIN call :
    LET cr == call[c]
        k == cr.attempts - 1
    IN
    /\ (cr.pc = "wait" /\ BackoffCause(cr))
         => /\ cr.wakeAt - cr.recvAt = Pow2(k) * 1000
            /\ cr.wakeAt - cr.recvAt =
                 (CASE k = 0 -> 1000 [] k = 1 -> 2000 [] k = 2 -> 4000
                    [] OTHER -> 0)
    /\ (BackoffCause(cr) /\ cr.last.kind = "response" /\ k = DEFAULT_RETRIES)
         => cr.pc \in {"trackError", "threw"} /\ cr.recvAt = now

\* The third retry of a call whose retries had different causes waits 4 s
\* after a network error.
C24_Witness ==
  /\ call["c1"].pc = "wait"
  /\ call["c1"].attempts = 3
  /\ call["c1"].uniform = "mixed"
  /\ call["c1"].last.kind = "network"
  /\ call["c1"].wakeAt = call["c1"].recvAt + 4000

\* C25: the api_error event recorded by a failing get call carries the
\* endpoint of the call and the message of the error the call throws to
\* its caller.
C25_ErrorEventMessage ==
  [][\A c \in DOMAIN call :
       (call[c].pc = "trackError" /\ call'[c].pc = "threw")
       => LET event == analytics'[Len(analytics')] IN
          /\ Len(analytics') = Len(analytics) + 1
          /\ event.action = "api_error"
          /\ event.data.endpoint = call'[c].endpoint
          /\ event.data.info = call'[c].err.message
    ]_vars

\* The network request of the call did not end in a 2xx response.
RequestFailed(cr) ==
  /\ cr.pc = "threw"
  /\ ~(cr.last.kind = "response" /\ cr.last.status \in 200..299)

\* C26 as stated: a get call that fails leaves the response cache as it
\* was, so the entry it read under its key is still there.
C26_FailedGetLeavesCache ==
  \A c \in DOMAIN call :
    (RequestFailed(call[c]) /\ call[c].read \in {"live", "expired"})
    => /\ Has(cache, call[c].key)
       /\ cache[call[c].key].data = call[c].readData

\* C26, amended: a cache entry is created or overwritten only by the put
\* of a get call whose network request ended in a 2xx response, and is
\* removed only by a get call that has read it after its expiry; a get call
\* whose request failed therefore leaves every entry as it was, except that
\* the expired entry of its own key is gone.
C26_OnlySuccessWrites ==
  [][\A k \in DOMAIN cache \cup DOMAIN cache' :
       /\ (k \in DOMAIN cache' /\ (k \notin DOMAIN cache \/ cache'[k] # cache[k]))
            => \E c \in DOMAIN call :
                 /\ call[c].pc = "cachePut" /\ call[c].key = k
                 /\ call[c].last.kind = "response"
                 /\ call[c].last.status \in 200..299
                 /\ cache'[k].data = call[c].data
       /\ k \notin DOMAIN cache'
            => \E d \in DOMAIN call :
                 /\ call[d].pc = "cacheDelete" /\ call[d].key = k
                 /\ call[d].read = "expired"
                 /\ now > cache[k].timestamp + cache[k].ttl
    ]_vars

\* A get call found the entry of its key expired, removed it, and failed.
C26_Witness ==
  /\ RequestFailed(call["c1"])
  /\ call["c1"].read = "expired"
  /\ ~Has(cache, call["c1"].key)

\* C27: once no search is awaiting its response, the movies held by the
\* Home page are empty if the search was cleared last, and are the results
\* of the search issued last if that search was answered with a payload.
C27_LatestSearchShown ==
  LET home == ui.home IN
  (\A c \in DOMAIN home.search : ~home.search[c].pending)
  => /\ home.cleared => home.movies = NoMovies
     /\ (~home.cleared /\ home.issued \in home.answered)
          => home.movies.n = home.issued

\* C28: every get call eventually completes, by returning a payload or by
\* throwing, when every attempt ends and every persistence operation
\* completes.
C28_GetCompletes ==
  \A c \in Callers : (call[c].pc = "cacheGet") ~> Completed(call[c])

\* A get call found its entry expired, removed it, used the whole retry
\* budget and completed by throwing.
C28_Witness ==
  /\ call["c1"].pc = "threw"
  /\ call["c1"].read = "expired"
  /\ call["c1"].attempts = DEFAULT_RETRIES + 1

\* C29: a toggle that has ended has flipped the membership of the movie in
\* the favorites collection, and when no instance of the hook is loading
\* or toggling, isFavorite of every mounted instance agrees with the
\* collection.
C29_ToggleFlips ==
  /\ \A h \in Hooks :
       (ui.hooks[h].pc = "ready" /\ ui.hooks[h].toggled)
       => ui.hooks[h].holds # ui.hooks[h].held
  /\ (\A h \in Hooks : ui.hooks[h].pc \in {"unmounted", "ready"})
     => \A h \in Hooks : \A id \in MovieIds :
          ui.hooks[h].pc = "ready"
          => (IsFavorite(ui.hooks[h].favorites, id) <=> Holds(favorites, id))

====
